---------------------------- MODULE Spec2Model ----------------------------
(***************************************************************************)
(* A model of workerpool's worker runtime (src/unnamed/part_000, the       *)
(* worker-side RPC loop), of its Promise (src/src/Promise.ts) and of its   *)
(* DebugPortAllocator (src/src/debug-port-allocator.ts).                   *)
(*                                                                         *)
(* The components share no state.  Each has its own next-state relation    *)
(* and specification (SpecWorker, SpecPromise, SpecAllocator).             *)
(***************************************************************************)
EXTENDS Integers, Sequences, FiniteSets, TLC

(***************************************************************************)
(* Bounds of the model.                                                    *)
(***************************************************************************)
\* request ids are 0 .. MaxId, each received at most once
MaxId == 1
\* calls of emit() by user code
MaxEmits == 2
\* calls of register()
MaxRegister == 2
\* terminate sentinels received
MaxTerminate == 1
\* Promise objects alive at once
MaxPromises == 3
\* timers started by timeout()
MaxTimers == 1
\* nesting of _resolve / _reject calls on the call stack; a call chain that
\* would nest deeper (a callback that re-enters its own promise for ever)
\* is not started
MaxDepth == 6
MaxLateCancels == 1
MaxAlls == 1
MaxAllInputs == 2
\* calls of nextAvailableStartingAt and releasePort
MaxAllocatorCalls == 5

(***************************************************************************)
(*                          THE WORKER RUNTIME                             *)
(***************************************************************************)
VARIABLES
    workerMethods,       \* names registered in the workerMethods table
    terminationHandler,  \* what options.onTerminate is: absent or a handler
    currentRequestId,    \* the module-level slot read by emit
    sent,                \* every worker.send(...) so far, in order
    exitCode,            \* the code worker.exit was called with, or NotExited
    reqState,            \* per request id: where its handling stands
    reqMethod,           \* per request id: the method being executed for it
    reqOutcome,          \* per request id: how its method completed
    terms,               \* per terminate sentinel: where cleanupAndExit stands
    emitCalls,           \* number of calls of emit so far
    emitter              \* the request whose method made the latest emit call

workerVars == <<workerMethods, terminationHandler, currentRequestId, sent,
                exitCode, reqState, reqMethod, reqOutcome, terms, emitCalls,
                emitter>>

\* The state of the promises that user code holds (src/Promise.ts)
VARIABLES
    promises,        \* the Promise objects, by identity 1 .. Len(promises)
    timers,          \* the timers started by timeout(), by identity
    calls,           \* every invocation of a handler given to then, in order
    cancelled,       \* promises on which cancel() was called while pending
    cancelledRoots,  \* roots that were pending when cancel() reached them
    lateCancels,     \* number of cancel() calls that found the root settled
    alls             \* per Promise.all call: its remaining, results and promise

promiseVars == <<promises, timers, calls, cancelled, cancelledRoots,
                 lateCancels, alls>>

\* The state of a DebugPortAllocator (src/debug-port-allocator.ts)
VARIABLES
    ports,           \* the keys of this.ports that hold true
    length,          \* this.length
    allocatorCalls   \* every call made on the allocator and how it ended

allocatorVars == <<ports, length, allocatorCalls>>

vars == <<workerVars, promiseVars, allocatorVars>>

Ids == 0 .. MaxId

\* stands for both null and undefined in a slot that otherwise holds a number
NoId == -1
NoMethod == "none"
NotExited == -1

\* the two built-ins the table is seeded with
BuiltinMethods == {"run", "methods"}
\* the names user code may pass to register
UserMethods == {"m1"}
\* workerMethods is an object literal, so workerMethods[name] also finds the
\* functions it inherits from Object.prototype
InheritedNames == {"toString"}
\* the names a request may carry in its method field
MethodNames == BuiltinMethods \cup UserMethods \cup InheritedNames
\* const method = workerMethods[request.method]; if (method)
Resolves(method, table) == method \in table \cup InheritedNames

\* values a method may return or fulfil with; "null" stands for null and for
\* undefined, which the runtime treats alike
Results == {"v", "null"}
\* a method may also hand back new Transfer(message, transfer)
Returned == Results \cup {"Transfer"}
IsTransfer(x) == x = "Transfer"
\* the message a Transfer envelope wraps
TransferMessage == "v"
Unwrap(x) == IF IsTransfer(x) THEN TransferMessage ELSE x
\* values a method may throw or reject with: an Error object, or null
\* (standing for null and undefined)
Thrown == {"Error", "null"}
Payloads == {"p", "Transfer"}

\* new Error('Unknown method "' + request.method + '"')
UnknownMethodError == "Error: Unknown method"

IsNullish(x) == x = "null"

\* what a termination handler does when called: it returns a non-promise, or
\* a promise (the two cases of its declared type)
HandlerKinds == {"returnsVoid", "returnsPromise"}
NoHandler == "undefined"

\* if (currentRequestId): undefined, null and 0 are all falsy
Truthy(id) == id # NoId /\ id # 0

\* convertError: Object.getOwnPropertyNames(error) throws a TypeError for
\* null and undefined; any other value yields a fresh object holding the
\* value's own properties
ConvertErrorThrows(err) == IsNullish(err)
ConvertError(err) == "object:" \o err

Message(kind, id, result, error, payload, transfer) ==
    [kind |-> kind, id |-> id, result |-> result, error |-> error,
     payload |-> payload, transfer |-> transfer]

ReadyMessage == Message("ready", NoId, "null", "null", "null", FALSE)

\* { id, result, error: null }; the message of a Transfer result is unwrapped
\* and its transfer list handed to send
ResultResponse(id, result) ==
    Message("response", id, Unwrap(result), "null", "null", IsTransfer(result))

\* ErrorResponse with the null of its result field lost
ErrorResponseKeepsResult(id, err) ==
    Message("response", id, "v", ConvertError(err), "null", FALSE)

\* { id, result: null, error: convertError(err) }
ErrorResponse(id, err) ==
    Message("response", id, "null", ConvertError(err), "null", FALSE)

\* { id: currentRequestId, isEvent: true, payload }
EventMessage(id, payload) ==
    Message("event", id, "null", "null", Unwrap(payload), IsTransfer(payload))

\* how a request's method completed, once it has, and with which value
Outcome(how, val) == [how |-> how, val |-> val]
NoOutcome == Outcome("none", "null")

Exited == exitCode # NotExited

\* a synchronous method body is executing (nothing else runs meanwhile
\* except what that body itself calls)
Running == \E id \in Ids : reqState[id] = "running"

WorkerInit ==
    /\ workerMethods = BuiltinMethods
    /\ terminationHandler = NoHandler
    /\ currentRequestId = NoId
    /\ sent = <<>>
    /\ exitCode = NotExited
    /\ reqState = [id \in Ids |-> "new"]
    /\ reqMethod = [id \in Ids |-> NoMethod]
    /\ reqOutcome = [id \in Ids |-> NoOutcome]
    /\ terms = <<>>
    /\ emitCalls = 0
    /\ emitter = NoId


(***************************************************************************)
(* register(methods, options)                                              *)
(***************************************************************************)
\* what register is given as options: none, or an object whose onTerminate
\* is absent or a handler
OptionChoices == {"noOptions", NoHandler} \cup HandlerKinds

Register(methods, options) ==
    /\ ~Exited
    /\ ~Running
    /\ Cardinality({i \in 1 .. Len(sent) : sent[i].kind = "ready"}) < MaxRegister
    /\ workerMethods' = workerMethods \cup methods
    /\ terminationHandler' =
          IF options = "noOptions" THEN terminationHandler ELSE options
    /\ sent' = Append(sent, ReadyMessage)
    /\ UNCHANGED <<currentRequestId, exitCode, reqState, reqMethod,
                   reqOutcome, terms, emitCalls, emitter>>

(***************************************************************************)
(* cleanupAndExit(code) and the terminate sentinel                         *)
(***************************************************************************)
Term(state, code) == [state |-> state, code |-> code]

\* cleanupAndExit without the isPromise branch: _exit() whatever the handler
\* returned
CleanupAndExitEager(code) ==
    /\ terms' = Append(terms,
                 Term(IF terminationHandler = NoHandler THEN "noHandler"
                      ELSE IF terminationHandler = "returnsPromise" THEN "pending"
                      ELSE "returned", code))
    /\ exitCode' = code

\* the body of cleanupAndExit: exit at once without a handler or when the
\* handler returns a non-promise; otherwise result.then(_exit, _exit)
CleanupAndExit(code) ==
    IF terminationHandler = NoHandler
    THEN /\ terms' = Append(terms, Term("noHandler", code))
         /\ exitCode' = code
    ELSE IF terminationHandler = "returnsPromise"
         THEN /\ terms' = Append(terms, Term("pending", code))
              /\ UNCHANGED exitCode
         ELSE /\ terms' = Append(terms, Term("returned", code))
              /\ exitCode' = code

\* worker.on('message') with request === TERMINATE_METHOD_ID
ReceiveTerminate ==
    /\ ~Exited
    /\ ~Running
    /\ Len(terms) < MaxTerminate
    /\ CleanupAndExit(0)
    /\ UNCHANGED <<workerMethods, terminationHandler, currentRequestId, sent,
                   reqState, reqMethod, reqOutcome, emitCalls, emitter>>

\* the promise the termination handler returned settles: _exit runs, for a
\* fulfilment and for a rejection alike
HandlerPromiseSettles(k, how) ==
    /\ ~Exited
    /\ ~Running
    /\ k \in 1 .. Len(terms)
    /\ terms[k].state = "pending"
    /\ terms' = [terms EXCEPT ![k].state = how]
    /\ exitCode' = terms[k].code
    /\ UNCHANGED <<workerMethods, terminationHandler, currentRequestId, sent,
                   reqState, reqMethod, reqOutcome, emitCalls, emitter>>

(***************************************************************************)
(* worker.on('message') with a request record {id, method, params}         *)
(***************************************************************************)
\* The handler up to and including the lookup.  An unknown method throws
\* inside the try block and is answered from the catch block; a known one
\* stores the id and starts executing the method.
ReceiveRequest(id, method) ==
    /\ ~Exited
    /\ ~Running
    /\ reqState[id] = "new"
    /\ \A j \in Ids : j < id => reqState[j] # "new"
    /\ IF Resolves(method, workerMethods)
       THEN /\ currentRequestId' = id
            /\ reqState' = [reqState EXCEPT ![id] = "running"]
            /\ reqMethod' = [reqMethod EXCEPT ![id] = method]
            /\ UNCHANGED <<sent, reqOutcome>>
       ELSE /\ sent' = Append(sent, ErrorResponse(id, UnknownMethodError))
            /\ reqState' = [reqState EXCEPT ![id] = "done"]
            /\ reqOutcome' = [reqOutcome EXCEPT ![id] = Outcome("unknown", UnknownMethodError)]
            /\ UNCHANGED <<currentRequestId, reqMethod>>
    /\ UNCHANGED <<workerMethods, terminationHandler, exitCode, terms,
                   emitCalls, emitter>>

\* the built-in methods() returns Object.keys(workerMethods) and the
\* inherited toString returns a string; every other method runs user code
\* (run evaluates the function text it is given)
IsUserCode(id) == reqMethod[id] \notin {"methods"} \cup InheritedNames
MayReturn(id, result) == ~IsUserCode(id) => result = "v"

\* the catch block of the message handler: the argument convertError(err) is
\* evaluated first; when it throws nothing is sent.  currentRequestId is not
\* assigned here.
SendFromCatch(id, err) ==
    IF ConvertErrorThrows(err)
    THEN sent' = sent
    ELSE sent' = Append(sent, ErrorResponse(id, err))

\* the method returned a non-promise: the "immediate result" branch
MethodReturns(id, result) ==
    /\ reqState[id] = "running"
    /\ MayReturn(id, result)
    /\ sent' = Append(sent, ResultResponse(id, result))
    /\ currentRequestId' = NoId
    /\ reqState' = [reqState EXCEPT ![id] = "done"]
    /\ reqMethod' = [reqMethod EXCEPT ![id] = NoMethod]
    /\ reqOutcome' = [reqOutcome EXCEPT ![id] = Outcome("returned", result)]
    /\ UNCHANGED <<workerMethods, terminationHandler, exitCode, terms,
                   emitCalls, emitter>>

\* the method threw: the catch block answers
MethodThrows(id, err) ==
    /\ reqState[id] = "running"
    /\ IsUserCode(id)
    /\ SendFromCatch(id, err)
    /\ reqState' = [reqState EXCEPT ![id] = "done"]
    /\ reqMethod' = [reqMethod EXCEPT ![id] = NoMethod]
    /\ reqOutcome' = [reqOutcome EXCEPT ![id] = Outcome("threw", err)]
    /\ UNCHANGED <<workerMethods, terminationHandler, currentRequestId,
                   exitCode, terms, emitCalls, emitter>>

\* the method returned a promise: result.then(...).catch(...) is attached
\* and the handler returns
MethodReturnsPromise(id) ==
    /\ reqState[id] = "running"
    /\ IsUserCode(id)
    /\ reqState' = [reqState EXCEPT ![id] = "pending"]
    /\ reqMethod' = [reqMethod EXCEPT ![id] = NoMethod]
    /\ UNCHANGED <<workerMethods, terminationHandler, currentRequestId, sent,
                   exitCode, reqOutcome, terms, emitCalls, emitter>>

\* the then-callback: send the result, then currentRequestId = null
PromiseFulfils(id, result) ==
    /\ ~Exited
    /\ ~Running
    /\ reqState[id] = "pending"
    /\ sent' = Append(sent, ResultResponse(id, result))
    /\ currentRequestId' = NoId
    /\ reqState' = [reqState EXCEPT ![id] = "done"]
    /\ reqOutcome' = [reqOutcome EXCEPT ![id] = Outcome("fulfilled", result)]
    /\ UNCHANGED <<workerMethods, terminationHandler, exitCode, reqMethod,
                   terms, emitCalls, emitter>>

\* the catch-callback: send the converted error, then currentRequestId =
\* null; when convertError throws, neither happens
PromiseRejects(id, err) ==
    /\ ~Exited
    /\ ~Running
    /\ reqState[id] = "pending"
    /\ IF ConvertErrorThrows(err)
       THEN UNCHANGED <<sent, currentRequestId>>
       ELSE /\ sent' = Append(sent, ErrorResponse(id, err))
            /\ currentRequestId' = NoId
    /\ reqState' = [reqState EXCEPT ![id] = "done"]
    /\ reqOutcome' = [reqOutcome EXCEPT ![id] = Outcome("rejected", err)]
    /\ UNCHANGED <<workerMethods, terminationHandler, exitCode, reqMethod,
                   terms, emitCalls, emitter>>

(***************************************************************************)
(* emit(payload), called by user code: from inside a running method, or    *)
(* later from a timer or a promise callback                                *)
(***************************************************************************)
\* emit is called by the code of request `caller`: the method being executed,
\* or a later callback of a method that returned a promise.  caller = NoId is
\* code that belongs to no request in flight.
Emit(caller, payload) ==
    /\ ~Exited
    /\ emitCalls < MaxEmits
    /\ caller \in Ids => reqState[caller] \in {"running", "pending"}
    /\ Running => /\ caller \in Ids
                  /\ reqState[caller] = "running"
                  /\ IsUserCode(caller)
    /\ emitCalls' = emitCalls + 1
    /\ emitter' = caller
    /\ IF Truthy(currentRequestId)
       THEN sent' = Append(sent, EventMessage(currentRequestId, payload))
       ELSE sent' = sent
    /\ UNCHANGED <<workerMethods, terminationHandler, currentRequestId,
                   exitCode, reqState, reqMethod, reqOutcome, terms>>

\* no promise exists when a program starts
PromiseInit ==
    /\ promises = <<>>
    /\ timers = <<>>
    /\ calls = <<>>
    /\ cancelled = {}
    /\ cancelledRoots = {}
    /\ lateCancels = 0
    /\ alls = <<>>

\* new DebugPortAllocator(): ports = {} and length = 0
AllocatorInit ==
    /\ ports = {}
    /\ length = 0
    /\ allocatorCalls = <<>>

\* the worker's side of the program: the promises stay as they are
WorkerNext ==
    \/ \E ms \in SUBSET UserMethods, o \in OptionChoices :
          Register(ms, o) /\ UNCHANGED <<promiseVars, allocatorVars>>
    \/ ReceiveTerminate /\ UNCHANGED <<promiseVars, allocatorVars>>
    \/ \E k \in 1 .. MaxTerminate, how \in {"fulfilled", "rejected"} :
          HandlerPromiseSettles(k, how) /\ UNCHANGED <<promiseVars, allocatorVars>>
    \/ \E id \in Ids, m \in MethodNames :
          ReceiveRequest(id, m) /\ UNCHANGED <<promiseVars, allocatorVars>>
    \/ \E id \in Ids, r \in Returned :
          MethodReturns(id, r) /\ UNCHANGED <<promiseVars, allocatorVars>>
    \/ \E id \in Ids, e \in Thrown :
          MethodThrows(id, e) /\ UNCHANGED <<promiseVars, allocatorVars>>
    \/ \E id \in Ids : MethodReturnsPromise(id) /\ UNCHANGED <<promiseVars, allocatorVars>>
    \/ \E id \in Ids, r \in Returned :
          PromiseFulfils(id, r) /\ UNCHANGED <<promiseVars, allocatorVars>>
    \/ \E id \in Ids, e \in Thrown :
          PromiseRejects(id, e) /\ UNCHANGED <<promiseVars, allocatorVars>>
    \/ \E c \in Ids \cup {NoId}, p \in Payloads :
          Emit(c, p) /\ UNCHANGED <<promiseVars, allocatorVars>>

\* the program as it starts
Init ==
    /\ WorkerInit
    /\ PromiseInit
    /\ AllocatorInit

SpecWorker == Init /\ [][WorkerNext]_vars


(***************************************************************************)
(* The event loop runs a callback that is due, and the premises of the     *)
(* termination contract: a method body that was entered completes, and     *)
(* the promise a termination handler returned settles.                     *)
(***************************************************************************)
MethodCompletes ==
    \/ \E id \in Ids, r \in Returned : MethodReturns(id, r)
    \/ \E id \in Ids, e \in Thrown : MethodThrows(id, e)
    \/ \E id \in Ids : MethodReturnsPromise(id)

HandlerSettles ==
    \E k \in 1 .. MaxTerminate, how \in {"fulfilled", "rejected"} :
        HandlerPromiseSettles(k, how)

SpecWorkerFair ==
    /\ SpecWorker
    /\ WF_vars(MethodCompletes /\ UNCHANGED <<promiseVars, allocatorVars>>)
    /\ WF_vars(HandlerSettles /\ UNCHANGED <<promiseVars, allocatorVars>>)

(***************************************************************************)
(*                     CLAIMS ABOUT THE WORKER RUNTIME                     *)
(***************************************************************************)
Responses(id) ==
    {i \in 1 .. Len(sent) : sent[i].kind = "response" /\ sent[i].id = id}
Events(id) ==
    {i \in 1 .. Len(sent) : sent[i].kind = "event" /\ sent[i].id = id}

\* the requests being served: the method is executing, or the promise it
\* returned is pending
Served == {id \in Ids : reqState[id] \in {"running", "pending"}}

\* C2: every request whose call has completed (the method returned or threw,
\* was not registered, or its promise settled) has exactly one response in
\* the messages sent, and no request ever has two.
C2_ExactlyOneResponse ==
    \A id \in Ids :
        /\ Cardinality(Responses(id)) <= 1
        /\ reqState[id] = "done" => Cardinality(Responses(id)) = 1

\* C6: no event message of a request is sent after that request's response.
C6_EventsBeforeResponse ==
    \A i, j \in 1 .. Len(sent) :
        (i < j /\ sent[i].kind = "response" /\ sent[j].kind = "event")
            => sent[i].id # sent[j].id

\* C7: when no request is being served and every received request has been
\* answered, currentRequestId is not set.
C7_IdResetWhenIdle ==
    (/\ Served = {}
     /\ \A id \in Ids : reqState[id] = "done" => Responses(id) # {})
        => currentRequestId = NoId

C9_EmitSendsForServed ==
    [][emitCalls' # emitCalls =>
          IF Served = {}
          THEN /\ sent' = sent
               /\ currentRequestId' = currentRequestId
          ELSE \E id \in Served, p \in Payloads :
                  sent' = Append(sent, EventMessage(id, p))]_workerVars

\* the sentinel whose handling has called worker.exit: at that moment its
\* handler was absent, had returned a non-promise, or its promise had settled
ExitIsDue ==
    Exited =>
        /\ exitCode = 0
        /\ \E k \in 1 .. Len(terms) :
              terms[k].state \in {"noHandler", "returned", "fulfilled", "rejected"}

\* without a handler, or with one that returns a non-promise, the exit is
\* part of handling the sentinel
ExitIsImmediate ==
    \A k \in 1 .. Len(terms) :
        terms[k].state \in {"noHandler", "returned"} => Exited

\* handling a sentinel calls the handler exactly when one is registered, and
\* neither that nor the later settlement sends a message
SentinelStep ==
    terms' # terms =>
        /\ sent' = sent
        /\ Len(terms') > Len(terms) =>
              (terms'[Len(terms')].state = "noHandler"
                  <=> terminationHandler = NoHandler)

Values == {"v1", "v2"}
Reasons == {"e1"}
Undefined == "undefined"
\* new CancellationError()
CancellationError == "CancellationError"
\* new TimeoutError('Promise timed out after ' + delay + ' ms')
TimeoutError == "TimeoutError"

\* a function given to then (or kept in a callback queue), by what it does
Fn(k, q, v) == [k |-> k, q |-> q, v |-> v]
\* null / undefined in the place of a handler
NoFn == Fn("none", 0, "")

\* an entry of _onSuccess / _onFail: the child's resolve or reject function,
\* or the wrapper _then(callback, resolve, reject) built for the child `to`
Closure(t, cb, to) == [t |-> t, cb |-> cb, to |-> to]

\* the state of a Promise after its field initialisers have run
NewPromise(parent, onSuccess, onFail) ==
    [parent |-> parent,
     resolved |-> FALSE, rejected |-> FALSE, pending |-> TRUE,
     onSuccess |-> <<>>, onFail |-> <<>>,
     \* which _process is installed: the pushing one of the prototype, or one
     \* of the two that _resolve / _reject put in its place, with its value
     process |-> "push", value |-> Undefined,
     \* whether _resolve / _reject are still the prototype's methods
     live |-> TRUE,
     \* bookkeeping: executions of a _resolve / _reject body, the ways the
     \* callbacks handed to _process were invoked, the two handlers then was
     \* given when it made the promise, and whether onFail was absent
     settles |-> 0, invoked |-> {}, hs |-> onSuccess, hf |-> onFail,
     noFail |-> (onFail = NoFn)]

\* setTimeout in timeout(): the root the walk ended at, and (bookkeeping)
\* the promise timeout was called on
NewTimer(root, on) == [root |-> root, on |-> on, state |-> "armed"]

\* the objects a call works on: it is threaded through the nested calls
Heap(ps, ts, cs, as) ==
    [ps |-> ps, ts |-> ts, cs |-> cs, as |-> as, overflow |-> FALSE]

RECURSIVE Root(_, _)
\* the promise cancel and timeout walk to
Root(ps, p) == IF ps[p].parent = 0 THEN p ELSE Root(ps, ps[p].parent)

Queue(H, p, side) ==
    IF side = "success" THEN H.ps[p].onSuccess ELSE H.ps[p].onFail

MarkInvoked(H, p, side, v) ==
    [H EXCEPT !.ps[p].invoked = @ \cup {<<side, v>>}]

RECURSIVE Settle(_, _, _, _, _)
RECURSIVE RunQueue(_, _, _, _, _, _, _)
RECURSIVE InvokeClosure(_, _, _, _)
RECURSIVE CallFn(_, _, _, _, _)
RECURSIVE ProcessCallbacks(_, _, _, _, _)
RECURSIVE ThenCall(_, _, _, _, _)
RECURSIVE CancelCall(_, _, _)

\* the status update with the assignment that clears the other flag left out
SetStatusKeepsOther(H, p, side) ==
    [H EXCEPT !.ps[p].resolved = (@ \/ side = "success"),
              !.ps[p].rejected = (@ \/ side = "fail"),
              !.ps[p].pending = FALSE,
              !.ps[p].settles = @ + 1]

\* the flags as _resolve / _reject assign them
SetStatus(H, p, side) ==
    [H EXCEPT !.ps[p].resolved = (side = "success"),
              !.ps[p].rejected = (side = "fail"),
              !.ps[p].pending = FALSE,
              !.ps[p].settles = @ + 1]

\* the tail of _resolve / _reject: the new _process, and the two empty
\* functions in the place of _resolve and _reject
InstallSettled(H, p, side, v) ==
    [H EXCEPT !.ps[p].process = side,
              !.ps[p].value = v,
              !.ps[p].live = FALSE]

\* this._resolve(v) (side "success") or this._reject(v) (side "fail") on
\* promise p, looked up at the time of the call; p = 0 is the promise of a
\* then whose result nobody kept
Settle(H, p, side, v, d) ==
    IF p = 0 \/ H.overflow THEN H
    ELSE IF d > MaxDepth THEN [H EXCEPT !.overflow = TRUE]
    ELSE IF ~H.ps[p].live THEN H
    ELSE LET H1 == SetStatus(H, p, side)
             n == Len(Queue(H1, p, side))
             H2 == RunQueue(H1, p, side, v, 1, n, d)
         IN  InstallSettled(H2, p, side, v)

\* this._onSuccess.forEach(fn => fn(v)): the elements present when forEach
\* starts, in order
RunQueue(H, p, side, v, i, n, d) ==
    IF i > n \/ H.overflow THEN H
    ELSE RunQueue(InvokeClosure(MarkInvoked(H, p, side, v),
                                Queue(H, p, side)[i], v, d),
                  p, side, v, i + 1, n, d)

\* the result of calling a handler: it returned a value, returned a promise
\* or threw
Result(H, out, v, q) == [h |-> H, out |-> out, v |-> v, q |-> q]

Logged(H, fn, to, arg) ==
    [H EXCEPT !.cs = Append(@, [reg |-> to, fn |-> fn.k, arg |-> arg])]

\* What the arrow function (result) => this._resolve(result) returns: the
\* prototype's _resolve / _reject return `this`, the empty functions put in
\* their place return undefined.  Before is the heap at the call.  For the
\* promise of a then whose result nobody kept (q = 0) the returned promise
\* is not followed: the wrapper of _then would call then on it, which
\* builds one more unreferenced promise, resolves the previous one and
\* recurs on the result until the call stack is exhausted; the RangeError
\* is caught by the wrappers' own catch blocks, and no promise that is
\* referenced is touched.
SettleResult(After, Before, q) ==
    IF q # 0 /\ Before.ps[q].live /\ ~After.overflow
    THEN Result(After, "promise", "", q)
    ELSE Result(After, "value", Undefined, 0)

\* the closure state of one Promise.all call: `remaining`, `results` (a hole
\* where nothing was stored yet), the promise all returned and, as
\* bookkeeping, the promises it was given
Hole == ""
NewAll(inputs, to) ==
    [remaining |-> Len(inputs), results |-> [i \in 1 .. Len(inputs) |-> Hole],
     to |-> to, inputs |-> inputs]

\* the index i that the success callback of all captured, as carried in Fn
IndexNames == <<"1", "2", "3", "4">>
IndexName(i) == IndexNames[i]
IndexOf(v) == CHOOSE i \in 1 .. Len(IndexNames) : IndexNames[i] = v

RECURSIVE Join(_, _)
Join(s, i) ==
    IF i > Len(s) THEN ""
    ELSE (IF i > 1 THEN "," ELSE "") \o s[i] \o Join(s, i + 1)
\* the results array as the value the promise of all is resolved with
ListValue(s) == "[" \o Join(s, 1) \o "]"

\* the handler a then made from inside a handler registers
NestedHandler(fn) == IF fn.v = "" THEN NoFn ELSE Fn("return", 0, fn.v)

\* callback(result) inside the wrapper of _then
CallFn(H, fn, to, arg, d) ==
    LET L == Logged(H, fn, to, arg) IN
    CASE fn.k = "return" -> Result(L, "value", fn.v, 0)
      [] fn.k = "throw" -> Result(L, "throw", fn.v, 0)
      [] fn.k = "returnPromise" -> Result(L, "promise", "", fn.q)
      \* () => { q.cancel() }
      [] fn.k = "cancel" -> Result(CancelCall(L, fn.q, d), "value", Undefined, 0)
      \* () => { resolver.resolve(v) }
      [] fn.k = "resolve" ->
            Result(Settle(L, fn.q, "success", fn.v, d + 1), "value", Undefined, 0)
      \* () => { q.then() }, or () => { q.then(g, g) } with g returning a value
      [] fn.k = "then" ->
            Result(ThenCall(L, fn.q, NestedHandler(fn), NestedHandler(fn), d),
                   "value", Undefined, 0)
      \* () => clearTimeout(timer)
      [] fn.k = "clearTimeout" ->
            Result([L EXCEPT !.ts[fn.q].state =
                               IF @ = "armed" THEN "cleared" ELSE @],
                   "value", Undefined, 0)
      \* the success callback of all for input fn.v of call fn.q
      [] fn.k = "allSuccess" ->
            LET H1 == [H EXCEPT !.as[fn.q].results[IndexOf(fn.v)] = arg,
                                !.as[fn.q].remaining = @ - 1]
            IN  Result(IF H1.as[fn.q].remaining = 0
                       THEN Settle(H1, H1.as[fn.q].to, "success",
                                   ListValue(H1.as[fn.q].results), d + 1)
                       ELSE H1,
                       "value", Undefined, 0)
      \* the failure callback of all of call fn.q
      [] fn.k = "allFail" ->
            LET H1 == [H EXCEPT !.as[fn.q].remaining = 0]
            IN  Result(Settle(H1, H1.as[fn.q].to, "fail", arg, d + 1),
                       "value", Undefined, 0)
      \* the resolve / reject function of promise fn.q, handed to
      \* res.then(resolve, reject): (result) => this._resolve(result)
      [] fn.k = "callResolve" ->
            SettleResult(Settle(H, fn.q, "success", arg, d + 1), H, fn.q)
      [] fn.k = "callReject" ->
            SettleResult(Settle(H, fn.q, "fail", arg, d + 1), H, fn.q)

\* res.then(resolve, reject) of _then: the promise it makes is dropped
Adopt(H, q, to, d) ==
    ProcessCallbacks(H, q,
                     Closure("then", Fn("callResolve", to, ""), 0),
                     Closure("then", Fn("callReject", to, ""), 0), d)

\* fn(v) for an entry of a callback queue
InvokeClosure(H, clo, arg, d) ==
    IF H.overflow THEN H
    ELSE IF clo.t = "resolve" THEN Settle(H, clo.to, "success", arg, d + 1)
    ELSE IF clo.t = "reject" THEN Settle(H, clo.to, "fail", arg, d + 1)
    ELSE \* the function _then returns
         LET r == CallFn(H, clo.cb, clo.to, arg, d) IN
         IF r.out = "throw" THEN Settle(r.h, clo.to, "fail", r.v, d + 1)
         ELSE IF r.out = "promise" THEN Adopt(r.h, r.q, clo.to, d)
         ELSE Settle(r.h, clo.to, "success", r.v, d + 1)

\* this._process(onSuccess, onFail)
ProcessCallbacks(H, p, s, f, d) ==
    IF H.overflow THEN H
    ELSE IF H.ps[p].process = "push"
    THEN [H EXCEPT !.ps[p].onSuccess = Append(@, s),
                   !.ps[p].onFail = Append(@, f)]
    ELSE IF H.ps[p].process = "success"
    THEN InvokeClosure(MarkInvoked(H, p, "success", H.ps[p].value), s,
                       H.ps[p].value, d)
    ELSE InvokeClosure(MarkInvoked(H, p, "fail", H.ps[p].value), f,
                       H.ps[p].value, d)

\* p.then(onSuccess, onFail): a new Promise with parent p whose handler
\* hands the two callbacks to p._process
ThenCall(H, p, onSuccess, onFail, d) ==
    IF H.overflow THEN H
    ELSE IF Len(H.ps) >= MaxPromises THEN [H EXCEPT !.overflow = TRUE]
    ELSE LET c == Len(H.ps) + 1
             H1 == [H EXCEPT !.ps = Append(@, NewPromise(p, onSuccess, onFail))]
             s == IF onSuccess = NoFn THEN Closure("resolve", NoFn, c)
                  ELSE Closure("then", onSuccess, c)
             f == IF onFail = NoFn THEN Closure("reject", NoFn, c)
                  ELSE Closure("then", onFail, c)
         IN  ProcessCallbacks(H1, p, s, f, d)

\* cancel that rejects the root through the prototype's _reject whatever was
\* put in its place
CancelCallUnguarded(H, p, d) ==
    InstallSettled(SetStatus(H, Root(H.ps, p), "fail"), Root(H.ps, p), "fail",
                   CancellationError)

\* p.cancel()
CancelCall(H, p, d) ==
    Settle(H, Root(H.ps, p), "fail", CancellationError, d + 1)


RECURSIVE RegisterAll(_, _, _, _, _)
\* promises.forEach((p, i) => p.then(success_i, fail)): the promises these
\* then calls return are dropped
RegisterAll(H, k, inputs, i, d) ==
    IF i > Len(inputs) \/ H.overflow THEN H
    ELSE RegisterAll(
            ProcessCallbacks(H, inputs[i],
                             Closure("then", Fn("allSuccess", k, IndexName(i)), 0),
                             Closure("then", Fn("allFail", k, ""), 0), d),
            k, inputs, i + 1, d)

\* Promise.all(inputs): a new Promise without parent whose handler registers
\* on every input, or resolves at once with [] when there is none
AllCall(H, inputs, d) ==
    LET to == Len(H.ps) + 1
        k == Len(H.as) + 1
        H1 == [H EXCEPT !.ps = Append(@, NewPromise(0, NoFn, NoFn)),
                        !.as = Append(@, NewAll(inputs, to))]
    IN  IF Len(inputs) = 0
        THEN Settle(H1, to, "success", ListValue(<<>>), d + 1)
        ELSE RegisterAll(H1, k, inputs, 1, d)


(***************************************************************************)
(* The operations on promises, as user code calls them                     *)
(***************************************************************************)
TheHeap == Heap(promises, timers, calls, alls)

\* the call ran to its end: the heap it leaves is the new state
Commit(H) ==
    /\ ~H.overflow
    /\ promises' = H.ps
    /\ timers' = H.ts
    /\ calls' = H.cs
    /\ alls' = H.as

Ps == 1 .. Len(promises)
Roots == {p \in Ps : promises[p].parent = 0}
\* the roots made by defer: user code holds their resolve and reject
Deferreds == Roots \ {alls[k].to : k \in 1 .. Len(alls)}

\* Promise.defer(): a promise without parent, and its resolve and reject
Defer ==
    /\ Len(promises) < MaxPromises
    /\ promises' = Append(promises, NewPromise(0, NoFn, NoFn))
    /\ UNCHANGED <<timers, calls, cancelled, cancelledRoots, lateCancels, alls>>

\* resolver.resolve(v)
Resolve(p, v) ==
    /\ p \in Deferreds
    /\ Commit(Settle(TheHeap, p, "success", v, 1))
    /\ UNCHANGED <<cancelled, cancelledRoots, lateCancels>>

\* resolver.reject(e)
Reject(p, e) ==
    /\ p \in Deferreds
    /\ Commit(Settle(TheHeap, p, "fail", e, 1))
    /\ UNCHANGED <<cancelled, cancelledRoots, lateCancels>>

\* p.cancel()
Cancel(p) ==
    /\ p \in Ps
    /\ promises[Root(promises, p)].pending \/ lateCancels < MaxLateCancels
    /\ Commit(CancelCall(TheHeap, p, 0))
    /\ lateCancels' = IF promises[Root(promises, p)].pending
                      THEN lateCancels ELSE lateCancels + 1
    /\ cancelled' = IF promises[p].pending THEN cancelled \cup {p} ELSE cancelled
    /\ cancelledRoots' =
          IF promises[Root(promises, p)].pending
          THEN cancelledRoots \cup {Root(promises, p)}
          ELSE cancelledRoots

\* the handlers user code gives to p.then: none, one that returns a value,
\* throws, or returns another promise, and ones that call back into the
\* chain they are registered on (cancel it, resolve its root, add a then)
OnSuccessChoices(p) ==
    {NoFn, Fn("return", 0, "v2"), Fn("throw", 0, "e1"),
     Fn("cancel", p, ""), Fn("then", p, "v2")}
        \cup {Fn("returnPromise", q, "") : q \in Roots \cup {p}}
OnFailChoices(p) ==
    {NoFn, Fn("return", 0, "v2"), Fn("throw", 0, "e1"), Fn("then", p, "")}
        \cup {Fn("resolve", q, "v2") : q \in {Root(promises, p)} \cap Deferreds}

\* p.then(onSuccess, onFail); catch and always are then(null, f), then(f, f)
Then(p, onSuccess, onFail) ==
    /\ p \in Ps
    /\ Commit(ThenCall(TheHeap, p, onSuccess, onFail, 0))
    /\ UNCHANGED <<cancelled, cancelledRoots, lateCancels>>

\* p.timeout(delay): on the root, setTimeout and
\* this.always(() => clearTimeout(timer))
Timeout(p) ==
    /\ p \in Ps
    /\ Len(timers) < MaxTimers
    /\ LET t == Len(timers) + 1
           H == [TheHeap EXCEPT !.ts = Append(@, NewTimer(Root(promises, p), p))]
           fn == Fn("clearTimeout", t, "")
       IN  Commit(ThenCall(H, Root(promises, p), fn, fn, 0))
    /\ UNCHANGED <<cancelled, cancelledRoots, lateCancels>>

\* Promise.all(inputs) on promises the caller holds
AllInputs == UNION {[1 .. n -> Ps] : n \in 0 .. MaxAllInputs}
All(inputs) ==
    /\ Len(alls) < MaxAlls
    /\ Len(promises) < MaxPromises
    /\ Commit(AllCall(TheHeap, inputs, 0))
    /\ UNCHANGED <<cancelled, cancelledRoots, lateCancels>>

\* The timer expires.  Its callback is `function () { this._reject(...) }`:
\* a function expression, whose `this` is what setTimeout calls it with (the
\* Timeout object, or the global object), not the promise.  this._reject is
\* undefined there and the call throws a TypeError out of the timer; no
\* promise is touched.
TimerExpires(t) ==
    /\ t \in 1 .. Len(timers)
    /\ timers[t].state = "armed"
    /\ timers' = [timers EXCEPT ![t].state = "expired"]
    /\ UNCHANGED <<promises, calls, cancelled, cancelledRoots, lateCancels,
                   alls>>

PromiseNext ==
    \/ Defer /\ UNCHANGED <<workerVars, allocatorVars>>
    \/ \E p \in 1 .. MaxPromises, v \in Values :
          Resolve(p, v) /\ UNCHANGED <<workerVars, allocatorVars>>
    \/ \E p \in 1 .. MaxPromises, e \in Reasons :
          Reject(p, e) /\ UNCHANGED <<workerVars, allocatorVars>>
    \/ \E p \in 1 .. MaxPromises : Cancel(p) /\ UNCHANGED <<workerVars, allocatorVars>>
    \/ \E p \in Ps : \E s \in OnSuccessChoices(p), f \in OnFailChoices(p) :
          Then(p, s, f) /\ UNCHANGED <<workerVars, allocatorVars>>
    \/ \E p \in 1 .. MaxPromises : Timeout(p) /\ UNCHANGED <<workerVars, allocatorVars>>
    \/ \E inputs \in AllInputs : All(inputs) /\ UNCHANGED <<workerVars, allocatorVars>>
    \/ \E t \in 1 .. MaxTimers : TimerExpires(t) /\ UNCHANGED <<workerVars, allocatorVars>>

\* the promises' side of the program: the worker stays as it is
SpecPromise == Init /\ [][PromiseNext]_vars


(***************************************************************************)
(* Properties of the promises                                              *)
(***************************************************************************)
RECURSIVE NoFailPath(_, _)
\* p is a root, or was made by then without an onFail handler on a promise
\* that is: a rejection of the root reaches p by propagation alone
NoFailPath(ps, p) ==
    \/ ps[p].parent = 0
    \/ ps[p].noFail /\ NoFailPath(ps, ps[p].parent)

RejectedWith(ps, p, e) ==
    /\ ps[p].rejected
    /\ ~ps[p].resolved
    /\ ~ps[p].pending
    /\ ps[p].process = "fail"
    /\ ps[p].value = e

\* C1: a promise transitions at most once, whatever resolve, reject and
\* cancel calls are made on it, calls from inside a running callback
\* included: the body of _resolve / _reject runs at most once for it, its
\* callbacks are invoked on one side only and with one value, and once it has
\* left pending its resolved / rejected flags stay as they are.
C1_TransitionsOnce ==
    /\ [](\A p \in Ps : /\ promises[p].settles <= 1
                        /\ Cardinality(promises[p].invoked) <= 1)
    /\ [][\A p \in Ps : ~promises[p].pending =>
              /\ promises'[p].resolved = promises[p].resolved
              /\ promises'[p].rejected = promises[p].rejected
              /\ promises'[p].pending = promises[p].pending]_vars

\* C3: when the timer of timeout() expires while the root is pending, the
\* root is rejected with a TimeoutError, and so is the promise timeout was
\* called on when no onFail handler stands between it and the root.
C3_ExpiryRejectsRoot ==
    [][\A t \in 1 .. Len(timers) :
          (/\ timers[t].state = "armed"
           /\ timers'[t].state = "expired"
           /\ promises[timers[t].root].pending)
          => /\ RejectedWith(promises', timers[t].root, TimeoutError)
             /\ NoFailPath(promises, timers[t].on)
                  => RejectedWith(promises', timers[t].on, TimeoutError)]_vars

\* C4: after cancel() on a promise of a chain whose root was pending, the
\* root is rejected with a CancellationError, and so is every descendant
\* that then made without an onFail handler (on the root or on such a
\* descendant), whether it was made before the cancel or after it.
C4_CancelRejectsChain ==
    \A r \in cancelledRoots : \A p \in Ps :
        (Root(promises, p) = r /\ NoFailPath(promises, p))
        => RejectedWith(promises, p, CancellationError)

\* C5: a promise that cancel() was called on while it was pending does not
\* end fulfilled: once it has left pending it is rejected.  Stated for the
\* promises that no onFail handler separates from their root, and for the
\* runs in which no promise was settled twice.
C5_CancelledEndsRejected ==
    (\A q \in Ps : promises[q].settles <= 1)
    => \A p \in cancelled :
          (NoFailPath(promises, p) /\ ~promises[p].pending)
          => promises[p].rejected /\ ~promises[p].resolved

(***************************************************************************)
(* Further properties of the worker runtime                                *)
(***************************************************************************)
\* the step that handles the request record with this id
Handles(id) == reqState[id] = "new" /\ reqState'[id] # "new"

\* the name the handled request carried, when its lookup found a function
LookedUp(id) == reqMethod'[id]

\* C13: a request that names a method which is not registered (not in the
\* table register and the two built-ins filled) is answered in the same step
\* with result null and the "Unknown method" error, and the registered
\* methods, the termination handler and currentRequestId stay as they were.
C13_UnknownMethodAnswered ==
    [][\A id \in Ids :
          (Handles(id) /\ LookedUp(id) \notin workerMethods)
          => /\ sent' = Append(sent, ErrorResponse(id, UnknownMethodError))
             /\ workerMethods' = workerMethods
             /\ terminationHandler' = terminationHandler
             /\ currentRequestId' = currentRequestId]_vars

ReadyCount == Cardinality({i \in 1 .. Len(sent) : sent[i].kind = "ready"})

\* C14: the message 'ready' is sent at most once in the life of the worker,
\* however many times register is called, and the step that sends it leaves
\* every method it was given in the table.
C14_ReadyOnce ==
    /\ [](ReadyCount <= 1)
    /\ [][(Len(sent') > Len(sent) /\ sent'[Len(sent')].kind = "ready")
            => workerMethods \subseteq workerMethods']_vars

\* the emit call of this step sent an event
EmitSent ==
    /\ emitCalls' # emitCalls
    /\ Len(sent') = Len(sent) + 1
    /\ sent'[Len(sent')].kind = "event"

\* C19: an event carries the id of the request whose method called emit:
\* when the caller is a request in flight, an event that emit sends has the
\* caller's id, and (for an id the runtime does not take for "no request")
\* the event is sent.
C19_EventCarriesCallerId ==
    [][(emitCalls' # emitCalls /\ emitter' \in Ids)
         => /\ (EmitSent => sent'[Len(sent')].id = emitter')
            /\ (Truthy(emitter') => EmitSent)]_vars

(***************************************************************************)
(* Further properties of the promises                                      *)
(***************************************************************************)
\* C15: in every state of every Promise exactly one of the status flags
\* pending, resolved and rejected is true.
C15_OneStatusFlag ==
    \A p \in Ps :
        LET P == promises[p] IN
        /\ P.pending \/ P.resolved \/ P.rejected
        /\ ~(P.pending /\ P.resolved)
        /\ ~(P.pending /\ P.rejected)
        /\ ~(P.resolved /\ P.rejected)

\* a promise that ran the bodies of both _resolve and _reject, next to one
\* that is still pending
C15_Witness ==
    /\ \E p \in Ps : promises[p].settles > 1 /\ Cardinality(promises[p].invoked) > 1
    /\ \E p \in Ps : promises[p].pending

NewCalls == SubSeq(calls', Len(calls) + 1, Len(calls'))

\* those of them that belong to then registrations made on p before the step
CallsOn(p) ==
    LET OnP(e) == e.reg \in Ps /\ promises[e.reg].parent = p
    IN  SelectSeq(NewCalls, OnP)

\* the promise a then call of this step made first, or 0
FirstMade == IF Len(promises') > Len(promises) THEN Len(promises) + 1 ELSE 0

\* C11: (1) when a promise settles, the handlers registered on it by then
\* before are executed in the order of their registrations, one after the
\* other; (2) a then on a promise that is settled executes its handler
\* inside the call, with the value the promise was resolved with or the
\* reason it was rejected with, as its flags show.
C11_OrderAndImmediate ==
    [][/\ \A p \in Ps :
            (promises[p].pending /\ ~promises'[p].pending)
            => \A i, j \in 1 .. Len(CallsOn(p)) :
                  i < j => CallsOn(p)[i].reg < CallsOn(p)[j].reg
       /\ LET c == FirstMade
              P == IF c = 0 THEN 0 ELSE promises'[c].parent
          IN  (c # 0 /\ P # 0 /\ ~promises[P].pending
               /\ promises'[c].hs # NoFn /\ promises'[c].hf # NoFn)
              => /\ Len(calls') > Len(calls)
                 /\ NewCalls[1] =
                      [reg |-> c,
                       fn |-> IF promises[P].resolved
                              THEN promises'[c].hs.k ELSE promises'[c].hf.k,
                       arg |-> promises[P].value]]_vars

\* a handler that only returns a value or only throws, or no handler
IsPlain(h) == h.k \in {"none", "return", "throw"}

\* what the child of a then must be once the parent was settled on `side`
\* with `v` and the handler for that side is the plain handler h
ChildSettledAs(c, side, v, h) ==
    LET C == promises[c] IN
    CASE h.k = "none" ->
            /\ C.process = side /\ C.value = v
            /\ C.resolved = (side = "success") /\ C.rejected = (side = "fail")
      [] h.k = "return" ->
            C.process = "success" /\ C.value = h.v /\ C.resolved /\ ~C.rejected
      [] h.k = "throw" ->
            C.process = "fail" /\ C.value = h.v /\ C.rejected /\ ~C.resolved

\* C12: for c = p.then(onSuccess, onFail) and p settled, c is settled with
\* the outcome of the handler for p's side: fulfilled with what it returned,
\* rejected with what it threw, or, when that handler is absent, settled as
\* p was.
C12_ChildTakesHandlerOutcome ==
    \A c \in Ps :
        LET P == promises[c].parent
            side == promises[P].process
            h == IF side = "success" THEN promises[c].hs ELSE promises[c].hf
        IN  (P # 0 /\ ~promises[P].pending /\ side # "push" /\ IsPlain(h))
            => /\ ~promises[c].pending
               /\ ChildSettledAs(c, side, promises[P].value, h)

\* the handler of then-child c that returned a promise was invoked
ReturnedPromise(c) ==
    \E i \in 1 .. Len(calls) : calls[i].reg = c /\ calls[i].fn = "returnPromise"

\* the promise that handler returned (both handlers of c are the same
\* function, or only one of them returns a promise)
Adopted(c) ==
    IF promises[c].hs.k = "returnPromise" THEN promises[c].hs.q
    ELSE promises[c].hf.q

\* C16: a then-child whose handler returned the promise q follows q: it is
\* pending while q is pending, fulfilled with q's value once q is fulfilled
\* and rejected with q's reason once q is rejected.  Stated for the runs in
\* which no promise was settled twice.
C16_ChildAdopts ==
    (\A p \in Ps : promises[p].settles <= 1)
    => \A c \in Ps :
          (/\ ReturnedPromise(c)
           /\ promises[c].hs.k = "returnPromise" => promises[c].hf.k = "none")
          => LET q == Adopted(c) IN
             /\ promises[c].pending = promises[q].pending
             /\ promises[c].resolved = promises[q].resolved
             /\ promises[c].rejected = promises[q].rejected
             /\ ~promises[q].pending => promises[c].value = promises[q].value

\* the invocations of the handlers of then-child c
CallsOf(c) == SelectSeq(calls, LAMBDA e : e.reg = c)

\* C20: for c = p.then(onSuccess, onFail) with both handlers given and p
\* settled, exactly one handler of c was invoked, once: the one for the side
\* p was settled on, with p's value or reason.  Stated for the runs in which
\* no promise was settled twice.
C20_OneHandlerOnce ==
    (\A p \in Ps : promises[p].settles <= 1)
    => \A c \in Ps :
          LET P == promises[c].parent IN
          (/\ P # 0
           /\ ~promises[P].pending
           /\ promises[c].hs # NoFn
           /\ promises[c].hf # NoFn)
          => /\ Len(CallsOf(c)) = 1
             /\ CallsOf(c)[1].arg = promises[P].value
             /\ CallsOf(c)[1].fn = IF promises[P].resolved
                                   THEN promises[c].hs.k
                                   ELSE promises[c].hf.k

\* the values the inputs of an all call were fulfilled with, by index
InputValues(A) == [i \in 1 .. Len(A.inputs) |-> promises[A.inputs[i]].value]

\* C18: the promise d of Promise.all(inputs) settles at most once; it is
\* fulfilled only when every input is fulfilled, and then with the inputs'
\* values by index; unless d itself was cancelled it is fulfilled once every
\* input is, and when it is rejected some input is rejected and d holds
\* that input's reason; for no inputs it is fulfilled with the empty list.
C18_AllSettlesOnce ==
    \A k \in 1 .. Len(alls) :
        LET A == alls[k]
            d == promises[A.to]
            AllFulfilled == \A i \in 1 .. Len(A.inputs) :
                               promises[A.inputs[i]].resolved
        IN  /\ d.settles <= 1
            /\ d.resolved => /\ AllFulfilled
                             /\ d.value = ListValue(InputValues(A))
            /\ (AllFulfilled /\ A.to \notin cancelledRoots) => d.resolved
            /\ (d.rejected /\ A.to \notin cancelledRoots)
                 => \E i \in 1 .. Len(A.inputs) :
                       /\ promises[A.inputs[i]].rejected
                       /\ d.value = promises[A.inputs[i]].value
            /\ Len(A.inputs) = 0 => d.resolved /\ d.value = ListValue(<<>>)

(***************************************************************************)
(*                       THE DEBUG PORT ALLOCATOR                          *)
(***************************************************************************)
\* const MAX_PORTS = 65535
MAX_PORTS == 65535

\* the ports callers ask for and release: the default inspector port and
\* the ports at the limit
PortChoices == {9229} \cup (MAX_PORTS - 2 .. MAX_PORTS)

\* what a call that returns no port is recorded to have returned
NoPort == -1

RECURSIVE NextUnset(_, _)
\* while (this.ports[starting] === true) { starting++ }
NextUnset(ps, starting) ==
    IF starting \in ps THEN NextUnset(ps, starting + 1) ELSE starting

\* the limit test with MAX_PORTS itself let through
PortLimitReachedPast(starting) == starting > MAX_PORTS

\* if (starting >= MAX_PORTS) throw
PortLimitReached(starting) == starting >= MAX_PORTS

\* the record of one call on the allocator
\* threw: it ended with the port-limit error; ret: the port it returned
AllocatorCall(op, arg, threw, ret) ==
    [op |-> op, arg |-> arg, threw |-> threw, ret |-> ret]

\* nextAvailableStartingAt(starting)
NextAvailableStartingAt(starting) ==
    /\ Len(allocatorCalls) < MaxAllocatorCalls
    /\ LET found == NextUnset(ports, starting)
       IN  IF PortLimitReached(found)
           THEN /\ UNCHANGED <<ports, length>>
                /\ allocatorCalls' =
                     Append(allocatorCalls,
                            AllocatorCall("next", starting, TRUE, NoPort))
           ELSE /\ ports' = ports \cup {found}
                /\ length' = length + 1
                /\ allocatorCalls' =
                     Append(allocatorCalls,
                            AllocatorCall("next", starting, FALSE, found))

\* releasePort(port)
ReleasePort(port) ==
    /\ Len(allocatorCalls) < MaxAllocatorCalls
    /\ ports' = ports \ {port}
    /\ length' = length - 1
    /\ allocatorCalls' =
         Append(allocatorCalls, AllocatorCall("release", port, FALSE, NoPort))

\* the allocator's side of the program
AllocatorNext ==
    \/ \E s \in PortChoices :
          NextAvailableStartingAt(s) /\ UNCHANGED <<workerVars, promiseVars>>
    \/ \E p \in PortChoices :
          ReleasePort(p) /\ UNCHANGED <<workerVars, promiseVars>>

SpecAllocator == Init /\ [][AllocatorNext]_vars

\* the call that the step just made
LatestCall == allocatorCalls'[Len(allocatorCalls')]

\* the smallest port at or above s that is not allocated
SmallestFree(s) ==
    CHOOSE p \in s .. s + Cardinality(ports) :
        /\ p \notin ports
        /\ \A q \in s .. p - 1 : q \in ports

\* a call of nextAvailableStartingAt(s) returns the smallest port at or
\* above s that is not allocated, below MAX_PORTS, and marks it allocated,
\* or throws the port-limit error and leaves ports and length as they were
NextReturnsFreeOrThrows ==
    (allocatorCalls' # allocatorCalls /\ LatestCall.op = "next")
      => \/ /\ ~LatestCall.threw
            /\ LatestCall.ret = SmallestFree(LatestCall.arg)
            /\ LatestCall.ret < MAX_PORTS
            /\ LatestCall.ret \notin ports
            /\ ports' = ports \cup {LatestCall.ret}
         \/ /\ LatestCall.threw
            /\ ports' = ports
            /\ length' = length

\* call i returned a port
HandedOut(i) ==
    /\ allocatorCalls[i].op = "next"
    /\ ~allocatorCalls[i].threw

\* two calls that returned the same port have a release of it between them
NoPortHandedOutTwice ==
    \A i, j \in 1 .. Len(allocatorCalls) :
        (/\ i < j
         /\ HandedOut(i)
         /\ HandedOut(j)
         /\ allocatorCalls[i].ret = allocatorCalls[j].ret)
          => \E k \in i + 1 .. j - 1 :
                /\ allocatorCalls[k].op = "release"
                /\ allocatorCalls[k].arg = allocatorCalls[i].ret

\* C21: nextAvailableStartingAt(s) either returns the smallest port p >= s
\* that is not allocated, with p < 65535, and marks it allocated, or throws
\* the port-limit error leaving ports and length unchanged; two allocations
\* without a release of the port between them never return the same port.
C21_NeverHandsOutAllocated ==
    /\ [][NextReturnsFreeOrThrows]_vars
    /\ []NoPortHandedOutTwice

\* a call passed over allocated ports before it returned one, a call threw
\* the port-limit error after passing over allocated ports, and a port
\* that was released has been handed out again
C21_Witness ==
    /\ \E i \in 1 .. Len(allocatorCalls) :
          /\ HandedOut(i)
          /\ allocatorCalls[i].ret # allocatorCalls[i].arg
    /\ \E i \in 1 .. Len(allocatorCalls) :
          /\ allocatorCalls[i].op = "next"
          /\ allocatorCalls[i].threw
          /\ allocatorCalls[i].arg < MAX_PORTS
    /\ \E i, j \in 1 .. Len(allocatorCalls) :
          /\ i < j
          /\ HandedOut(i)
          /\ HandedOut(j)
          /\ allocatorCalls[i].ret = allocatorCalls[j].ret

\* C22: in every reachable state length equals the number of ports that are
\* marked allocated, and so is never negative, whatever calls of
\* nextAvailableStartingAt and releasePort were made, releasePort of a port
\* that is not allocated included.
C22_LengthCountsPorts ==
    /\ length = Cardinality(ports)
    /\ length >= 0
=============================================================================
